---- MODULE Spec2Model ----
(***************************************************************************)
(* Model of the OCR service of Juny09/ocr-v2:                              *)
(*   - reconstruct_layout        (src/services/ocr_service.py)             *)
(*   - the three engine adapters (src/services/ocr_service.py)             *)
(*   - OCRService.process_image  (src/services/ocr_service.py)             *)
(*   - get_ocr_service and perform_ocr (src/api/routes.py)                 *)
(*                                                                         *)
(* Conventions.  A Python string is a sequence of one-character strings.   *)
(* A Python call returns an outcome: Return(v) or Raise(e).  A bounding    *)
(* box is a record whose field shape says what the Python value is: a list *)
(* of four [x, y] lists ("points"), a flat list [x, y, w, h] ("xywh") or   *)
(* None ("none").  Vertical centres are kept multiplied by 4, so that      *)
(* y + h/2 and sum(ys)/4 stay integers.                                    *)
(***************************************************************************)
EXTENDS Integers, Sequences, FiniteSets, TLC

VARIABLES
    \* ---- reconstruct_layout called on its own
    lines,          \* the list passed to reconstruct_layout (sorted in place)
    rows,           \* the local `rows` of reconstruct_layout at return
    out,            \* the outcome of the call
    lpc,            \* "call" before the call, "done" after it
    \* ---- one recognize call on an engine adapter
    engine,         \* the adapter: "paddleocr", "tesseract" or "easyocr"
    backend,        \* what the OCR backend answers to this call
    res,            \* the outcome of recognize
    apc,            \* "call" before the call, "done" after it
    \* ---- the web workflow: requests served by threads of the pool
    OCR_ENGINE,     \* config.OCR_ENGINE
    ocr_service,    \* the global ocr_service of api/routes.py
    ocr_init_error, \* the global ocr_init_error of api/routes.py
    constructed,    \* how many times the default OCRService was constructed
                    \* (2 stands for twice or more)
    files,          \* the upload directory: path -> content
    req,            \* per request: its place in perform_ocr (pc), the locals
                    \* language, filename, service, ocr_input and result
                    \* (each kept from its assignment to its last use),
                    \* whether the preprocessing just raised,
                    \* what engine.recognize returned to process_image
                    \* (recognized), and the HTTP response
    \* ---- one call of an ImageProcessor method
    ip              \* the call: the method (op), its arguments, its place
                    \* (pc), its local image, the methods it called and
                    \* its outcome (out)

layoutVars == <<lines, rows, out, lpc>>

adapterVars == <<engine, backend, res, apc>>

globalVars ==
    <<OCR_ENGINE, ocr_service, ocr_init_error, constructed, files>>

serviceVars == <<globalVars, req>>

imageVars == <<ip>>

vars == <<layoutVars, adapterVars, serviceVars, imageVars>>

----------------------------------------------------------------------------
(* Bounds *)

MaxLen == 3         \* longest fragment list given to reconstruct_layout

MaxDets == 2        \* most detections (tokens) a backend returns for an image

NumReqs == 2        \* requests received in the life of the process

MaxDim == 2         \* largest side of the small pictures given to crop

----------------------------------------------------------------------------
(* Python values *)

None == [py |-> "None"]

PyList(items) == [py |-> "list", items |-> items]

Exception(e) == [py |-> "Exception", err |-> e]

\* `not v` for None and lists
Falsy(v) == v.py = "None" \/ (v.py = "list" /\ v.items = <<>>)

Return(v) == [exc |-> FALSE, val |-> v]

Raise(e) == [exc |-> TRUE, err |-> e]

Abs(n) == IF n < 0 THEN 0 - n ELSE n

Max2(a, b) == IF a >= b THEN a ELSE b

MaxOf(S) == CHOOSE m \in S : \A n \in S : n <= m

MinOf(S) == CHOOSE m \in S : \A n \in S : m <= n

RECURSIVE SumSeq(_)
SumSeq(s) == IF s = <<>> THEN 0 ELSE Head(s) + SumSeq(Tail(s))

RECURSIVE Concat(_)
Concat(ss) == IF ss = <<>> THEN <<>> ELSE Head(ss) \o Concat(Tail(ss))

SeqsUpTo(S, n) == UNION {[1..k -> S] : k \in 0..n}

Perms(s) ==
    {[i \in 1..Len(s) |-> s[p[i]]] :
        p \in {q \in [1..Len(s) -> 1..Len(s)] :
                 \A i, j \in 1..Len(s) : i # j => q[i] # q[j]}}

\* list.sort(key=...): stable, ascending
StableSort(s, K(_)) ==
    LET n == Len(s)
        rank(i) == 1 + Cardinality({j \in 1..n :
                          \/ K(s[j]) < K(s[i])
                          \/ (K(s[j]) = K(s[i]) /\ j < i)})
    IN  [p \in 1..n |-> s[CHOOSE i \in 1..n : rank(i) = p]]

----------------------------------------------------------------------------
(* Bounding boxes and fragments *)

XYWH(x, y, w, h) == [shape |-> "xywh", xywh |-> <<x, y, w, h>>]

Points(p1, p2, p3, p4) == [shape |-> "points", pts |-> <<p1, p2, p3, p4>>]

NoBox == [shape |-> "none"]

EmptyBox == [shape |-> "empty"]

NotSubscriptable_PolygonsToo(bbox) == bbox.shape # "xywh"

\* bbox[0] raises when bbox is None or an empty list
NotSubscriptable(bbox) == bbox.shape \in {"none", "empty"}

SubscriptError(bbox) ==
    IF bbox.shape = "empty" THEN "IndexError" ELSE "TypeError"

IsListOfLists(bbox) == bbox.shape = "points"

\* Helper to get center Y of a box (times 4)
get_cy(bbox) ==
    IF IsListOfLists(bbox)
    THEN LET ys == [i \in 1..Len(bbox.pts) |-> bbox.pts[i][2]]
         IN  (4 * SumSeq(ys)) \div Len(ys)
    ELSE 4 * bbox.xywh[2] + 2 * bbox.xywh[4]

\* Helper to get center X (times 4)
get_cx(bbox) ==
    IF IsListOfLists(bbox)
    THEN LET xs == [i \in 1..Len(bbox.pts) |-> bbox.pts[i][1]]
         IN  (4 * SumSeq(xs)) \div Len(xs)
    ELSE 4 * bbox.xywh[1] + 2 * bbox.xywh[3]

\* Helper to get left X
get_x(bbox) ==
    IF IsListOfLists(bbox)
    THEN MinOf({bbox.pts[i][1] : i \in 1..Len(bbox.pts)})
    ELSE bbox.xywh[1]

get_h_ThirdMinusFirst(bbox) ==
    IF IsListOfLists(bbox)
    THEN bbox.pts[3][2] - bbox.pts[1][2]
    ELSE bbox.xywh[4]

\* Helper to get height
get_h(bbox) ==
    IF IsListOfLists(bbox)
    THEN LET ys == {bbox.pts[i][2] : i \in 1..Len(bbox.pts)}
         IN  MaxOf(ys) - MinOf(ys)
    ELSE bbox.xywh[4]

\* the value stored in last_x_end after an item
x_end(bbox) ==
    IF IsListOfLists(bbox)
    THEN MaxOf({bbox.pts[i][1] : i \in 1..Len(bbox.pts)})
    ELSE bbox.xywh[1] + bbox.xywh[3]

Space == " "

Newline == "\n"

Spaces(n) == [i \in 1..n |-> Space]

----------------------------------------------------------------------------
(* reconstruct_layout *)

\* lines.sort(key=lambda l: get_cy(l['bbox']))
cy_of(l) == get_cy(l.bbox)

SortedLines_Unsorted(ls) == ls

SortedLines(ls) == StableSort(ls, cy_of)

SameRowTest_OwnHeight(box, prev_box) ==
    LET h == get_h(box.bbox)
        y_diff == Abs(get_cy(box.bbox) - get_cy(prev_box.bbox))
    IN  y_diff < 2 * h

SameRowTest_Inclusive(box, prev_box) ==
    LET h == get_h(prev_box.bbox)
        y_diff == Abs(get_cy(box.bbox) - get_cy(prev_box.bbox))
    IN  y_diff <= 2 * h

\* the test that keeps a box in the row of prev_box
SameRowTest(box, prev_box) ==
    LET h == get_h(prev_box.bbox)
        y_diff == Abs(get_cy(box.bbox) - get_cy(prev_box.bbox))
    IN  y_diff < 2 * h          \* y_diff < h * 0.5, both sides times 4

\* the grouping loop; a row is a sequence of indices into the sorted list
\* (the row holds references to the list's items)
RECURSIVE GroupFrom(_, _, _, _)
GroupFrom(ls, i, rs, current_row) ==
    IF i > Len(ls)
    THEN Append(rs, current_row)
    ELSE LET prev == current_row[Len(current_row)]
         IN  IF SameRowTest(ls[i], ls[prev])
             THEN GroupFrom(ls, i + 1, rs, Append(current_row, i))
             ELSE GroupFrom(ls, i + 1, Append(rs, current_row), <<i>>)

GroupRows(ls) == IF ls = <<>> THEN <<>> ELSE GroupFrom(ls, 2, <<>>, <<1>>)

SortRow_Unsorted(ls, row) == row

\* row.sort(key=lambda l: get_x(l['bbox']))
SortRow(ls, row) ==
    LET x_of(k) == get_x(ls[k].bbox) IN StableSort(row, x_of)

\* the gap computed before an item
GapSpaces(x_start, last_x_end) ==
    IF last_x_end > 0
    THEN Spaces(Max2(0, x_start - last_x_end) \div 10)
    ELSE <<>>

\* the loop over the items of a row
RECURSIVE RowText(_, _, _, _, _)
RowText(ls, row, k, line_text, last_x_end) ==
    IF k > Len(row)
    THEN line_text
    ELSE LET item == ls[row[k]]
         IN  RowText(ls, row, k + 1,
                     line_text \o GapSpaces(get_x(item.bbox), last_x_end)
                               \o item.text,
                     x_end(item.bbox))

LineOf(ls, row) == RowText(ls, row, 1, <<>>, 0)

\* "\n".join(output_lines)
RECURSIVE Join(_)
Join(ols) ==
    IF ols = <<>> THEN <<>>
    ELSE IF Len(ols) = 1 THEN ols[1]
    ELSE ols[1] \o <<Newline>> \o Join(Tail(ols))

\* the list after the call (sorted in place unless a key raised)
LinesAfter(ls) ==
    IF \A i \in 1..Len(ls) : ~NotSubscriptable(ls[i].bbox)
    THEN SortedLines(ls)
    ELSE ls

\* the local `rows` at return, each row sorted by left X
RowsAfter(ls) ==
    LET sorted == SortedLines(ls)
        grouped == GroupRows(sorted)
    IN  [r \in 1..Len(grouped) |-> SortRow(sorted, grouped[r])]

reconstruct_layout(ls) ==
    IF ls = <<>>
    THEN Return(<<>>)
    ELSE IF \E i \in 1..Len(ls) : NotSubscriptable(ls[i].bbox)
    THEN LET bad == MinOf({i \in 1..Len(ls) : NotSubscriptable(ls[i].bbox)})
         IN  Raise(SubscriptError(ls[bad].bbox))
    ELSE LET sorted == SortedLines(ls)
             rs == RowsAfter(ls)
         IN  Return(Join([r \in 1..Len(rs) |-> LineOf(sorted, rs[r])]))

----------------------------------------------------------------------------
(* Inputs of reconstruct_layout *)

BoxA == XYWH(0, 0, 50, 20)          \* centre 10, right edge 50

BoxB == XYWH(60, 8, 50, 20)         \* centre 18

BoxGap25 == XYWH(75, 0, 50, 20)     \* 25 px right of BoxA, same centre

BoxGap5 == XYWH(55, 4, 50, 20)      \* 5 px right of BoxA, centre 14

BoxThin == XYWH(0, 0, 0, 20)        \* zero width at the left margin

BoxFlat == XYWH(0, 10, 50, 0)       \* zero height, centre 10

PolyA == Points(<<0, 0>>, <<50, 0>>, <<50, 20>>, <<0, 20>>)

PolySkew == Points(<<60, 30>>, <<110, 34>>, <<110, 54>>, <<60, 50>>)

GoodBoxes == {BoxA, BoxB, BoxGap25, BoxGap5, BoxThin, BoxFlat, PolyA, PolySkew}

Boxes == GoodBoxes \cup {NoBox}

Texts == {<<"a">>, <<"b">>}

\* the dictionary an adapter builds for a detection; in the inputs the
\* confidence (a fraction) goes with the text: 'a' 9/10, 'b' 1/2
Fragment(text, bbox) ==
    [text |-> text,
     confidence |-> IF text = <<"a">> THEN <<9, 10>> ELSE <<1, 2>>,
     bbox |-> bbox]

Fragments == {Fragment(t, b) : t \in Texts, b \in Boxes}

WellFormed(ls) == \A i \in 1..Len(ls) : ls[i].bbox \in GoodBoxes

----------------------------------------------------------------------------
(* The call of reconstruct_layout *)

Reqs == 1..NumReqs

\* the locals of a request that has not started
NewRequest ==
    [pc |-> "get", language |-> <<>>, filename |-> "", service |-> None,
     ocr_input |-> <<>>, preprocess_failed |-> FALSE, recognized |-> None,
     result |-> None, response |-> None]

ServiceIdle ==
    /\ OCR_ENGINE = "paddleocr"
    /\ ocr_service = None
    /\ ocr_init_error = None
    /\ constructed = 0
    /\ files = <<>>
    /\ req = [r \in Reqs |-> [NewRequest EXCEPT !.pc = "off"]]

ImageIdle == ip = [op |-> "none"]

AdapterIdle ==
    /\ engine = "paddleocr"
    /\ backend = None
    /\ res = None
    /\ apc = "idle"

InitLayout ==
    /\ lines \in SeqsUpTo(Fragments, MaxLen)
    /\ rows = <<>>
    /\ out = None
    /\ lpc = "call"
    /\ AdapterIdle
    /\ ServiceIdle
    /\ ImageIdle

Reconstruct ==
    /\ lpc = "call"
    /\ out' = reconstruct_layout(lines)
    /\ lines' = LinesAfter(lines)
    /\ rows' = IF reconstruct_layout(lines).exc THEN <<>> ELSE RowsAfter(lines)
    /\ lpc' = "done"
    /\ UNCHANGED <<adapterVars, serviceVars, imageVars>>

NextLayout == Reconstruct

SpecLayout == InitLayout /\ [][NextLayout]_vars

----------------------------------------------------------------------------
(* Engine adapters: the result dictionaries *)

\* a confidence is the rational num/den, kept as <<num, den>>
Rat(num, den) == <<num, den>>

EmptyResult(name) ==
    [success |-> TRUE, text |-> <<>>, lines |-> <<>>, engine |-> name]

SuccessResult(name, text, ls) ==
    [success |-> TRUE, text |-> text, lines |-> ls, engine |-> name]

FailureResult(name, e) ==
    [success |-> FALSE, error |-> e, engine |-> name]

\* str.strip()
IsWhite(c) == c \in {Space, Newline}

RECURSIVE LStrip(_)
LStrip(t) ==
    IF t = <<>> THEN <<>>
    ELSE IF IsWhite(Head(t)) THEN LStrip(Tail(t)) ELSE t

RECURSIVE RStrip(_)
RStrip(t) ==
    IF t = <<>> THEN <<>>
    ELSE IF IsWhite(t[Len(t)]) THEN RStrip(SubSeq(t, 1, Len(t) - 1)) ELSE t

Strip(t) == RStrip(LStrip(t))

----------------------------------------------------------------------------
(* PaddleOCREngine.recognize *)

\* one raw detection: line[0] is the box, line[1] is (text, confidence) or,
\* when the backend answers badly, None
PaddleLine(bbox, text_info) == [bbox |-> bbox, text_info |-> text_info]

TextInfo(text, confidence) ==
    [py |-> "tuple", text |-> text, confidence |-> confidence]

\* the for loop over result[0]
RECURSIVE PaddleLoop(_, _, _)
PaddleLoop(dets, i, ls) ==
    IF i > Len(dets)
    THEN Return(ls)
    ELSE LET line == dets[i]
         IN  IF line.text_info.py = "None"
             THEN Raise("TypeError")        \* text_info[0] on None
             ELSE PaddleLoop(dets, i + 1,
                     Append(ls, [text |-> line.text_info.text,
                                 confidence |-> line.text_info.confidence,
                                 bbox |-> line.bbox]))

\* the body of the try block
PaddleTry(raw) ==
    IF raw.exc
    THEN raw                                \* self.ocr.ocr raised
    ELSE LET result == raw.val
         IN  IF Falsy(result) \/ Falsy(result.items[1])
             THEN Return(EmptyResult("paddleocr"))
             ELSE LET built == PaddleLoop(result.items[1].items, 1, <<>>)
                  IN  IF built.exc
                      THEN built
                      ELSE LET text == reconstruct_layout(built.val)
                           IN  IF text.exc
                               THEN text
                               ELSE Return(SuccessResult("paddleocr",
                                        text.val, LinesAfter(built.val)))

PaddleExcept_Uncaught(o) == o

\* except Exception as e
PaddleExcept(o) ==
    IF o.exc THEN Return(FailureResult("paddleocr", o.err)) ELSE o

PaddleRecognize(raw) == PaddleExcept(PaddleTry(raw))

----------------------------------------------------------------------------
(* TesseractOCREngine.recognize *)

\* data['conf'][i]: an integer, or text that int() rejects
IntConf(n) == [py |-> "int", n |-> n]

BadConf == [py |-> "str"]

Token(text, conf, box) ==
    [text |-> text, conf |-> conf, left |-> box[1], top |-> box[2],
     width |-> box[3], height |-> box[4]]

\* what the backend does on this image: stage is the call that raises
\* ("open", "data", "string") or "none"
TessRaw(stage, tokens, string) ==
    [stage |-> stage, tokens |-> tokens, string |-> string]

KeepConf_ZeroToo(n) == n >= 0

\* if int(data['conf'][i]) > 0
KeepConf(n) == n > 0

\* the for loop over the boxes
RECURSIVE TessLoop(_, _, _)
TessLoop(tokens, i, ls) ==
    IF i > Len(tokens)
    THEN Return(ls)
    ELSE LET t == tokens[i]
         IN  IF t.conf.py # "int"
             THEN Raise("ValueError")       \* int() of the confidence
             ELSE IF KeepConf(t.conf.n)
             THEN TessLoop(tokens, i + 1,
                     Append(ls, [text |-> t.text,
                                 confidence |-> Rat(t.conf.n, 100),
                                 bbox |-> XYWH(t.left, t.top,
                                               t.width, t.height)]))
             ELSE TessLoop(tokens, i + 1, ls)

TessText_Unstripped(string) == string

\* image_to_string(...).strip()
TessText(string) == Strip(string)

\* the body of the try block
TessTry(raw) ==
    IF raw.stage # "none"
    THEN Raise(raw.stage)
    ELSE LET text == TessText(raw.string)
             built == TessLoop(raw.tokens, 1, <<>>)
         IN  IF built.exc
             THEN built
             ELSE Return(SuccessResult("tesseract", text, built.val))

\* except Exception as e
TessExcept(o) ==
    IF o.exc THEN Return(FailureResult("tesseract", o.err)) ELSE o

TessRecognize(raw) == TessExcept(TessTry(raw))

----------------------------------------------------------------------------
(* EasyOCREngine.recognize *)

\* one raw detection (bbox, text, prob); the raw box has its coordinates in
\* half pixels (the backend gives floats)
EasyItem(bbox, text, prob) == [bbox |-> bbox, text |-> text, prob |-> prob]

\* int() of a non-negative coordinate given in half pixels
IntOfHalves(n) == n \div 2

\* [[int(p[0]), int(p[1])] for p in bbox]
EasyBox(bbox) ==
    IF bbox.shape = "empty"
    THEN EmptyBox
    ELSE [shape |-> "points",
          pts |-> [k \in 1..Len(bbox.pts) |->
                     <<IntOfHalves(bbox.pts[k][1]),
                       IntOfHalves(bbox.pts[k][2])>>]]

\* the for loop over results
RECURSIVE EasyLoop(_, _, _)
EasyLoop(results, i, ls) ==
    IF i > Len(results)
    THEN Return(ls)
    ELSE LET item == results[i]
         IN  IF item.bbox.shape = "none"
             THEN Raise("TypeError")        \* for p in None
             ELSE EasyLoop(results, i + 1,
                     Append(ls, [text |-> item.text,
                                 confidence |-> item.prob,
                                 bbox |-> EasyBox(item.bbox)]))

\* the body of the try block
EasyTry(raw) ==
    IF raw.exc
    THEN raw                                \* self.reader.readtext raised
    ELSE LET built == EasyLoop(raw.val.items, 1, <<>>)
         IN  IF built.exc
             THEN built
             ELSE LET text == reconstruct_layout(built.val)
                  IN  IF text.exc
                      THEN text
                      ELSE Return(SuccessResult("easyocr",
                               text.val, LinesAfter(built.val)))

\* except Exception as e
EasyExcept(o) ==
    IF o.exc THEN Return(FailureResult("easyocr", o.err)) ELSE o

EasyRecognize(raw) == EasyExcept(EasyTry(raw))

----------------------------------------------------------------------------
(* Backend answers *)

Confidences == {Rat(1, 2), Rat(1, 1)}

PaddleLines ==
    {PaddleLine(b, TextInfo(t, c)) :
        b \in {PolyA, PolySkew, NoBox}, t \in Texts, c \in Confidences}
    \cup {PaddleLine(PolyA, None)}

PaddleAnswers ==
    {Raise("decode error"), Return(None), Return(PyList(<<>>)),
     Return(PyList(<<None>>)), Return(PyList(<<PyList(<<>>)>>))}
    \cup {Return(PyList(<<PyList(d)>>)) :
            d \in SeqsUpTo(PaddleLines, MaxDets) \ {<<>>}}

TokenBoxes == {<<0, 0, 50, 20>>, <<60, 8, 50, 20>>}

Confs == {IntConf(0 - 1), IntConf(0), IntConf(45), IntConf(100), BadConf}

Tokens == {Token(<<"a">>, c, b) : c \in Confs, b \in TokenBoxes}
          \cup {Token(<<>>, IntConf(0 - 1), <<0, 0, 110, 28>>)}

TessStrings == {<<>>, <<Space, Newline>>, <<"a", Space, "a", Newline>>}

TessAnswers ==
    {TessRaw(st, <<>>, <<>>) : st \in {"open", "data", "string"}}
    \cup {TessRaw("none", ts, str) :
            ts \in SeqsUpTo(Tokens, MaxDets), str \in TessStrings}

\* PolyA and PolySkew with float coordinates, in half pixels
RawPolyA == Points(<<1, 1>>, <<101, 0>>, <<100, 41>>, <<0, 40>>)

RawPolySkew == Points(<<121, 60>>, <<220, 69>>, <<221, 108>>, <<120, 101>>)

EasyItems ==
    {EasyItem(b, t, c) :
        b \in {RawPolyA, RawPolySkew, NoBox, EmptyBox},
        t \in Texts, c \in Confidences}

EasyAnswers ==
    {Raise("decode error")}
    \cup {Return(PyList(rs)) : rs \in SeqsUpTo(EasyItems, MaxDets)}

----------------------------------------------------------------------------
(* One recognize call *)

LayoutIdle ==
    /\ lines = <<>>
    /\ rows = <<>>
    /\ out = None
    /\ lpc = "idle"

InitAdapter ==
    /\ \/ engine = "paddleocr" /\ backend \in PaddleAnswers
       \/ engine = "tesseract" /\ backend \in TessAnswers
       \/ engine = "easyocr" /\ backend \in EasyAnswers
    /\ res = None
    /\ apc = "call"
    /\ LayoutIdle
    /\ ServiceIdle
    /\ ImageIdle

PaddleCall ==
    /\ apc = "call"
    /\ engine = "paddleocr"
    /\ res' = PaddleRecognize(backend)
    /\ apc' = "done"
    /\ UNCHANGED <<engine, backend>>
    /\ UNCHANGED <<layoutVars, serviceVars, imageVars>>

TessCall ==
    /\ apc = "call"
    /\ engine = "tesseract"
    /\ res' = TessRecognize(backend)
    /\ apc' = "done"
    /\ UNCHANGED <<engine, backend>>
    /\ UNCHANGED <<layoutVars, serviceVars, imageVars>>

EasyCall ==
    /\ apc = "call"
    /\ engine = "easyocr"
    /\ res' = EasyRecognize(backend)
    /\ apc' = "done"
    /\ UNCHANGED <<engine, backend>>
    /\ UNCHANGED <<layoutVars, serviceVars, imageVars>>

NextAdapter == PaddleCall \/ TessCall \/ EasyCall

SpecAdapter == InitAdapter /\ [][NextAdapter]_vars

----------------------------------------------------------------------------
(* Configuration (config.py) and OCRService *)

PADDLE_LANG == <<"ch">>

TESSERACT_LANG == <<"chi_sim+eng">>

EASYOCR_LANG == <<"ch_sim", "en">>

EngineKinds == {"paddleocr", "tesseract", "easyocr"}

\* values of the environment variable OCR_ENGINE
ConfigKinds == EngineKinds \cup {"rapidocr"}

\* set(...) of a list
ToSet(l) == {l[i] : i \in 1..Len(l)}

\* OCRService(engine_type, ...): `role` and `by` tell the instances apart
\* (object identity); ok says whether the engine constructor succeeds
OCRService(engine_type, lang, role, by, ok) ==
    IF engine_type \notin EngineKinds
    THEN Raise("ValueError")
    ELSE IF ~ok
    THEN Raise("ImportError")
    ELSE Return([engine_type |-> engine_type, lang |-> lang,
                 role |-> role, by |-> by])

\* the branches of get_ocr_service
DefaultEngineType(kind) ==
    IF kind = "paddleocr" THEN "paddleocr"
    ELSE IF kind = "easyocr" THEN "easyocr"
    ELSE "tesseract"

DefaultLang(kind) ==
    IF kind = "paddleocr" THEN PADDLE_LANG
    ELSE IF kind = "easyocr" THEN EASYOCR_LANG
    ELSE TESSERACT_LANG

\* the upload directory
Filenames == {"a.png", "b.png"}

TempPath(fn) == <<"temp_", fn>>

ProcessedPath(fn) == <<"processed_", fn>>

Paths == {TempPath(fn) : fn \in Filenames}
         \cup {ProcessedPath(fn) : fn \in Filenames}

NoPath == <<>>

\* a file holds the upload of a request, as uploaded or preprocessed
Upload(r) == [upload |-> r, preprocessed |-> FALSE]

Preprocessed(content) == [upload |-> content.upload, preprocessed |-> TRUE]

PathExists_Always(path, fs) == TRUE

\* Path(image_path).exists()
PathExists(path, fs) == fs[path] # None

\* the language form field: not given, or a list of codes after split(',')
Languages == {<<>>, <<"en", "ch_sim">>, <<"en">>}

\* engine.recognize on a file of the upload directory
EngineRecognize(inst, path, fs, ok) ==
    IF fs[path] = None \/ ~ok
    THEN FailureResult(inst.engine_type, "recognition failed")
    ELSE SuccessResult(inst.engine_type,
                       [image |-> fs[path], lang |-> inst.lang], <<>>)

\* the dictionary process_image returns for a missing file
NotFound(path) ==
    [success |-> FALSE, error |-> <<"Image file not found: ", path>>]

\* the responses of perform_ocr
HTTPException(status) == [status |-> status]

OCRResponse(r) ==
    IF r.success
    THEN [status |-> 200, success |-> TRUE, text |-> r.text,
          engine |-> r.engine]
    ELSE [status |-> 200, success |-> FALSE, error |-> r.error,
          engine |-> IF "engine" \in DOMAIN r THEN r.engine ELSE OCR_ENGINE]

----------------------------------------------------------------------------
(* get_ocr_service and perform_ocr, one request per thread *)

InitService ==
    /\ OCR_ENGINE \in ConfigKinds
    /\ ocr_service = None
    /\ ocr_init_error = None
    /\ constructed = 0
    /\ files = [p \in Paths |-> None]
    /\ req = [r \in Reqs |-> NewRequest]
    /\ LayoutIdle
    /\ AdapterIdle
    /\ ImageIdle

\* what the thread keeps of a response it has sent: the status line and
\* the success flag
Sent(resp) ==
    [status |-> resp.status,
     success |-> IF "success" \in DOMAIN resp THEN resp.success ELSE FALSE]

\* the request is over: its locals are gone, its response is sent
Finished(resp) == [NewRequest EXCEPT !.pc = "done", !.response = Sent(resp)]

\* get_ocr_service: the two tests on the globals
GetService(r) ==
    /\ req[r].pc = "get"
    /\ req' = [req EXCEPT ![r] =
          IF ocr_service # None
          THEN [@ EXCEPT !.service = ocr_service, !.pc = "override"]
          ELSE IF ocr_init_error # None
          THEN Finished(HTTPException(500))
          ELSE [@ EXCEPT !.pc = "construct"]]
    /\ UNCHANGED <<globalVars, layoutVars, adapterVars, imageVars>>

\* get_ocr_service: the try block, up to the assignment of the global
Construct(r) ==
    /\ req[r].pc = "construct"
    /\ \E ok \in BOOLEAN :
          LET o == OCRService(DefaultEngineType(OCR_ENGINE),
                              DefaultLang(OCR_ENGINE), "default", r, ok)
          IN  IF o.exc
              THEN /\ ocr_init_error' = Exception(o.err)
                   /\ req' = [req EXCEPT ![r] = Finished(HTTPException(500))]
                   /\ UNCHANGED <<ocr_service, constructed>>
              ELSE /\ ocr_service' = o.val
                   /\ constructed' = IF constructed < 2 THEN constructed + 1 ELSE 2
                   /\ req' = [req EXCEPT ![r].pc = "return"]
                   /\ UNCHANGED ocr_init_error
    /\ UNCHANGED <<OCR_ENGINE, files, layoutVars, adapterVars, imageVars>>

\* get_ocr_service: return ocr_service
ReturnService(r) ==
    /\ req[r].pc = "return"
    /\ req' = [req EXCEPT ![r] =
                 [@ EXCEPT !.service = ocr_service, !.pc = "override"]]
    /\ UNCHANGED <<globalVars, layoutVars, adapterVars, imageVars>>

\* the tests that lead perform_ocr to construct an engine for the request
OverrideApplies(kind, requested_langs) ==
    /\ kind = "easyocr"
    /\ requested_langs # <<>>
    /\ ToSet(requested_langs) # ToSet(EASYOCR_LANG)

GlobalAfterOverride_Reinit(current, new) == new

\* the global ocr_service after perform_ocr made an engine for the request
GlobalAfterOverride(current, new) == current

\* perform_ocr: the language change
Override(r) ==
    /\ req[r].pc = "override"
    /\ \E l \in Languages :
          IF OverrideApplies(OCR_ENGINE, l)
          THEN \E ok \in BOOLEAN :
                 LET o == OCRService("easyocr", l, "override", r, ok)
                 IN  IF o.exc
                     THEN /\ req' = [req EXCEPT ![r] =
                                        Finished(HTTPException(500))]
                          /\ UNCHANGED ocr_service
                     ELSE /\ req' = [req EXCEPT ![r] =
                                [@ EXCEPT !.language = l, !.service = o.val,
                                          !.pc = "save"]]
                          /\ ocr_service' =
                                GlobalAfterOverride(ocr_service, o.val)
          ELSE /\ req' = [req EXCEPT ![r] =
                             [@ EXCEPT !.language = l, !.pc = "save"]]
               /\ UNCHANGED ocr_service
    /\ UNCHANGED <<OCR_ENGINE, ocr_init_error, constructed, files, layoutVars,
                   adapterVars, imageVars>>

\* perform_ocr: the extension or the size of the upload is refused
Reject(r) ==
    /\ req[r].pc = "save"
    /\ req' = [req EXCEPT ![r] = Finished(HTTPException(400))]
    /\ UNCHANGED <<globalVars, layoutVars, adapterVars, imageVars>>

\* the names a new upload is given: file names are interchangeable, so the
\* first name in use is called a.png
NamesInUse ==
    {fn \in Filenames :
        \/ \E q \in Reqs : req[q].filename = fn
        \/ files[TempPath(fn)] # None
        \/ files[ProcessedPath(fn)] # None}

UploadNames == IF NamesInUse = {} THEN {"a.png"} ELSE Filenames

\* whether perform_ocr calls ImageProcessor.preprocess
WillPreprocess(preprocess) ==
    preprocess /\ OCR_ENGINE \notin {"paddleocr", "easyocr"}

\* perform_ocr: the upload is written to temp_path (a crop rewrites it in
\* place with a region of the same image), and the original is the input
\* unless preprocessing is due; when the write raises, the outer handler
\* removes both files and answers 500
Save(r) ==
    /\ req[r].pc = "save"
    /\ \E fn \in UploadNames :
          \/ \E will \in {WillPreprocess(p) : p \in BOOLEAN} :
                /\ req' = [req EXCEPT ![r] =
                      IF will
                      THEN [@ EXCEPT !.filename = fn, !.language = <<>>,
                                     !.pc = "prep"]
                      ELSE [@ EXCEPT !.filename = fn, !.language = <<>>,
                                     !.ocr_input = TempPath(fn),
                                     !.pc = "check"]]
                /\ files' = [files EXCEPT ![TempPath(fn)] = Upload(r)]
          \/ /\ req' = [req EXCEPT ![r] = Finished(HTTPException(500))]
             /\ files' = [files EXCEPT ![TempPath(fn)] = None,
                                       ![ProcessedPath(fn)] = None]
    /\ UNCHANGED <<OCR_ENGINE, ocr_service, ocr_init_error, constructed,
                   layoutVars, adapterVars, imageVars>>

AfterPreprocessError_Abort(rq, temp_path) == Finished(HTTPException(500))

\* perform_ocr: the handler of an exception of preprocess or save_image
AfterPreprocessError(rq, temp_path) ==
    [rq EXCEPT !.ocr_input = temp_path, !.preprocess_failed = TRUE,
               !.pc = "check"]

\* perform_ocr: preprocess is on and the engine is Tesseract; load_image
\* raises when the file is gone, any stage may raise
Preprocess(r) ==
    /\ req[r].pc = "prep"
    /\ LET temp_path == TempPath(req[r].filename)
           processed_path == ProcessedPath(req[r].filename)
       IN  \E ok \in BOOLEAN :
              IF files[temp_path] = None \/ ~ok
              THEN /\ req' = [req EXCEPT ![r] =
                                 AfterPreprocessError(@, temp_path)]
                   /\ UNCHANGED files
              ELSE /\ req' = [req EXCEPT ![r] =
                        [@ EXCEPT !.ocr_input = processed_path,
                                  !.pc = "check"]]
                   /\ files' = [files EXCEPT ![processed_path] =
                                   Preprocessed(files[temp_path])]
    /\ UNCHANGED <<OCR_ENGINE, ocr_service, ocr_init_error, constructed,
                   layoutVars, adapterVars, imageVars>>

\* OCRService.process_image: the existence test
ProcessImage(r) ==
    /\ req[r].pc = "check"
    /\ req' = [req EXCEPT ![r] =
          IF PathExists(req[r].ocr_input, files)
          THEN [@ EXCEPT !.preprocess_failed = FALSE, !.pc = "recognize"]
          ELSE [@ EXCEPT !.result = NotFound(req[r].ocr_input),
                         !.service = None, !.ocr_input = NoPath,
                         !.preprocess_failed = FALSE, !.pc = "cleanup"]]
    /\ UNCHANGED <<globalVars, layoutVars, adapterVars, imageVars>>

\* OCRService.process_image: return self.engine.recognize(image_path)
Recognize(r) ==
    /\ req[r].pc = "recognize"
    /\ \E ok \in BOOLEAN :
          LET d == EngineRecognize(req[r].service, req[r].ocr_input, files, ok)
          IN  req' = [req EXCEPT ![r] =
                  [@ EXCEPT !.recognized = d, !.result = d,
                            !.service = None, !.ocr_input = NoPath,
                            !.pc = "cleanup"]]
    /\ UNCHANGED <<globalVars, layoutVars, adapterVars, imageVars>>

\* perform_ocr: the temporary files are removed and the response is built
Respond(r) ==
    /\ req[r].pc = "cleanup"
    /\ files' = [files EXCEPT ![TempPath(req[r].filename)] = None,
                              ![ProcessedPath(req[r].filename)] = None]
    /\ req' = [req EXCEPT ![r] = Finished(OCRResponse(req[r].result))]
    /\ UNCHANGED <<OCR_ENGINE, ocr_service, ocr_init_error, constructed,
                   layoutVars, adapterVars, imageVars>>

NextService ==
    \E r \in Reqs :
        \/ GetService(r)
        \/ Construct(r)
        \/ ReturnService(r)
        \/ Override(r)
        \/ Reject(r)
        \/ Save(r)
        \/ Preprocess(r)
        \/ ProcessImage(r)
        \/ Recognize(r)
        \/ Respond(r)

SpecService == InitService /\ [][NextService]_vars

----------------------------------------------------------------------------
(* ImageProcessor (utils/image_processor.py) *)

Min2(a, b) == IF a <= b THEN a ELSE b

\* an array cut out of a picture: the rectangle of the picture it holds
Raster(x0, y0, width, height) ==
    [x0 |-> x0, y0 |-> y0, width |-> width, height |-> height]

\* where a[i:...] or a[...:i] falls on an axis of length n (numpy: a
\* negative index counts from the end, and the index is clipped to 0..n)
SliceIndex(i, n) == IF i < 0 THEN Max2(0, i + n) ELSE Min2(i, n)

\* image[y1:y2, x1:x2]
Slice(image, y1, y2, x1, x2) ==
    LET ylo == SliceIndex(y1, image.height)
        yhi == SliceIndex(y2, image.height)
        xlo == SliceIndex(x1, image.width)
        xhi == SliceIndex(x2, image.width)
    IN  Raster(image.x0 + xlo, image.y0 + ylo,
               Max2(0, xhi - xlo), Max2(0, yhi - ylo))

ClampOrigin_UpperOnly(v, size) == Min2(v, size)

\* max(0, min(x, width))
ClampOrigin(v, size) == Max2(0, Min2(v, size))

\* max(0, min(w, width - x))
ClampExtent(v, room) == Max2(0, Min2(v, room))

crop(image, x, y, w, h) ==
    LET height == image.height
        width == image.width
        x1 == ClampOrigin(x, width)
        y1 == ClampOrigin(y, height)
        w1 == ClampExtent(w, width - x1)
        h1 == ClampExtent(h, height - y1)
    IN  IF w1 = 0 \/ h1 = 0
        THEN image
        ELSE Slice(image, y1, y1 + h1, x1, x1 + w1)

\* an array seen by the preprocessing pipeline: whether it has three
\* dimensions (colour), whether some pixel is > 0 (foreground), and the cv2
\* operations that made it from the array that was loaded
Array(colour, foreground) ==
    [colour |-> colour, foreground |-> foreground, ops |-> <<>>]

\* the result of a cv2 operation on image; whether a picture with
\* foreground keeps some is left to the pixels, a black picture stays black
Cv2(image, op, keeps) ==
    [image EXCEPT !.ops = Append(@, op),
                  !.foreground = image.foreground /\ keeps]

deskew_NoEarlyReturn(image, keeps) ==
    IF image.colour
    THEN Raise("cv2.error")
    ELSE Return(Cv2(Cv2(image, "minAreaRect", TRUE), "warpAffine", keeps))

\* deskew: minAreaRect wants points of two coordinates, so it raises on
\* the coordinates of a three-dimensional array
deskew(image, keeps) ==
    IF ~image.foreground
    THEN Return(image)
    ELSE IF image.colour
    THEN Raise("cv2.error")
    ELSE Return(Cv2(Cv2(image, "minAreaRect", TRUE), "warpAffine", keeps))

\* convert_to_grayscale
convert_to_grayscale(image, keeps) ==
    IF image.colour
    THEN [Cv2(image, "cvtColor", keeps) EXCEPT !.colour = FALSE]
    ELSE image

\* denoise
denoise(image, keeps) == Cv2(image, "fastNlMeansDenoising", keeps)

\* apply_threshold(image, method="otsu")
apply_threshold(image, keeps) == Cv2(image, "threshold", keeps)

----------------------------------------------------------------------------
(* One call of crop, deskew or preprocess *)

\* sides of the pictures: the small ones and the 100 of the documented case
Dims == (1..MaxDim) \cup {100}

\* crop arguments: around and beyond the small pictures, and the -5 and
\* 10000 of the documented case
CropArgs == ((0 - MaxDim - 2)..(MaxDim + 2)) \cup {0 - 5, 10000}

CropCalls ==
    {[op |-> "crop", pc |-> "call", image |-> Raster(0, 0, width, height),
      x |-> x, y |-> y, w |-> w, h |-> h, out |-> None] :
        width \in Dims, height \in Dims,
        x \in CropArgs, y \in CropArgs, w \in CropArgs, h \in CropArgs}

Arrays == {Array(c, f) : c \in BOOLEAN, f \in BOOLEAN}

DeskewCalls ==
    {[op |-> "deskew", pc |-> "call", image |-> a, out |-> None] :
        a \in Arrays}

\* preprocess(image_path, grayscale, threshold, denoise_image, deskew_image);
\* file is what cv2.imread finds at image_path (None: nothing readable)
PreprocessCalls ==
    {[op |-> "preprocess", pc |-> "load", file |-> f, grayscale |-> g,
      threshold |-> t, denoise_image |-> dn, deskew_image |-> ds,
      image |-> None, calls |-> <<>>, out |-> None] :
        f \in Arrays \cup {None}, g \in BOOLEAN, t \in BOOLEAN,
        dn \in BOOLEAN, ds \in BOOLEAN}

InitImage ==
    /\ ip \in CropCalls \cup DeskewCalls \cup PreprocessCalls
    /\ LayoutIdle
    /\ AdapterIdle
    /\ ServiceIdle

Others == <<layoutVars, adapterVars, serviceVars>>

CropCall ==
    /\ ip.op = "crop" /\ ip.pc = "call"
    /\ ip' = [ip EXCEPT !.out = Return(crop(ip.image, ip.x, ip.y, ip.w, ip.h)),
                        !.pc = "done"]
    /\ UNCHANGED Others

DeskewCall ==
    /\ ip.op = "deskew" /\ ip.pc = "call"
    /\ \E keeps \in BOOLEAN :
          ip' = [ip EXCEPT !.out = deskew(ip.image, keeps), !.pc = "done"]
    /\ UNCHANGED Others

\* a method of ImageProcessor is called on the local image
Called(fn) == Append(ip.calls, [fn |-> fn, colour |-> ip.image.colour])

\* image = cls.load_image(image_path)
Load ==
    /\ ip.op = "preprocess" /\ ip.pc = "load"
    /\ ip' = IF ip.file = None
             THEN [ip EXCEPT !.out = Raise("ValueError"), !.pc = "done"]
             ELSE [ip EXCEPT !.image = ip.file, !.pc = "gray"]
    /\ UNCHANGED Others

\* if grayscale: image = cls.convert_to_grayscale(image)
Grayscale ==
    /\ ip.op = "preprocess" /\ ip.pc = "gray"
    /\ \E keeps \in BOOLEAN :
          ip' = IF ip.grayscale
                THEN [ip EXCEPT
                        !.image = convert_to_grayscale(ip.image, keeps),
                        !.calls = Called("convert_to_grayscale"),
                        !.pc = "denoise"]
                ELSE [ip EXCEPT !.pc = "denoise"]
    /\ UNCHANGED Others

\* if denoise_image and len(image.shape) == 2: image = cls.denoise(image)
Denoise ==
    /\ ip.op = "preprocess" /\ ip.pc = "denoise"
    /\ \E keeps \in BOOLEAN :
          ip' = IF ip.denoise_image /\ ~ip.image.colour
                THEN [ip EXCEPT !.image = denoise(ip.image, keeps),
                                !.calls = Called("denoise"),
                                !.pc = "deskew"]
                ELSE [ip EXCEPT !.pc = "deskew"]
    /\ UNCHANGED Others

\* if deskew_image and len(image.shape) == 2: image = cls.deskew(image)
Deskew ==
    /\ ip.op = "preprocess" /\ ip.pc = "deskew"
    /\ \E keeps \in BOOLEAN :
          LET o == deskew(ip.image, keeps)
          IN  ip' = IF ip.deskew_image /\ ~ip.image.colour
                    THEN IF o.exc
                         THEN [ip EXCEPT !.out = o,
                                         !.calls = Called("deskew"),
                                         !.pc = "done"]
                         ELSE [ip EXCEPT !.image = o.val,
                                         !.calls = Called("deskew"),
                                         !.pc = "threshold"]
                    ELSE [ip EXCEPT !.pc = "threshold"]
    /\ UNCHANGED Others

\* if threshold and len(image.shape) == 2: image = cls.apply_threshold(...);
\* return image
Threshold ==
    /\ ip.op = "preprocess" /\ ip.pc = "threshold"
    /\ \E keeps \in BOOLEAN :
          ip' = IF ip.threshold /\ ~ip.image.colour
                THEN [ip EXCEPT
                        !.image = apply_threshold(ip.image, keeps),
                        !.calls = Called("apply_threshold"),
                        !.out = Return(apply_threshold(ip.image, keeps)),
                        !.pc = "done"]
                ELSE [ip EXCEPT !.out = Return(ip.image), !.pc = "done"]
    /\ UNCHANGED Others

NextImage ==
    \/ CropCall
    \/ DeskewCall
    \/ Load
    \/ Grayscale
    \/ Denoise
    \/ Deskew
    \/ Threshold

SpecImage == InitImage /\ [][NextImage]_vars

----------------------------------------------------------------------------
(* Properties of reconstruct_layout *)

Chars == {"a", "b", Space, Newline}

Returned == lpc = "done" /\ ~out.exc

\* C1 (as stated): reconstruct_layout returns the same string for every
\* permutation of a list of well-formed fragments.
C1_OrderIndependent ==
    Returned => \A p \in Perms(lines) : reconstruct_layout(p) = out

\* fragments with the same centre Y have one non-zero height and
\* different left edges
TiesAgree(ls) ==
    \A i, j \in 1..Len(ls) :
        (i # j /\ get_cy(ls[i].bbox) = get_cy(ls[j].bbox)) =>
            /\ get_h(ls[i].bbox) = get_h(ls[j].bbox)
            /\ get_h(ls[i].bbox) > 0
            /\ get_x(ls[i].bbox) # get_x(ls[j].bbox)

\* C1 (amended): reconstruct_layout returns the same string for every
\* permutation of a list of well-formed fragments in which any two fragments
\* with equal centre Y have the same non-zero height and different left
\* edges.
C1_OrderIndependentWithoutTies ==
    (Returned /\ WellFormed(lines) /\ TiesAgree(lines)) =>
        \A p \in Perms(lines) : reconstruct_layout(p) = out

C1_Witness ==
    /\ Returned
    /\ Len(lines) = 3
    /\ TiesAgree(lines)
    /\ \E i, j \in 1..3 : i # j /\ get_cy(lines[i].bbox) = get_cy(lines[j].bbox)
    /\ Len(rows) = 2
    /\ lines # SortedLines(<<lines[3], lines[2], lines[1]>>)

\* the row (index into rows) that holds item i of the sorted list
RowIndex(i) ==
    CHOOSE r \in 1..Len(rows) : \E k \in 1..Len(rows[r]) : rows[r][k] = i

\* C2: in ascending centre-Y order, a fragment is in the row of the fragment
\* just before it exactly when their centres differ by less than half the
\* height of the earlier one, and otherwise opens the next row; A [0,0,50,20]
\* and B [60,8,50,20] make one row with B after A.
C2_RowGrouping ==
    (Returned /\ lines # <<>>) =>
        /\ RowIndex(1) = 1
        /\ \A i \in 2..Len(lines) :
              IF Abs(get_cy(lines[i].bbox) - get_cy(lines[i - 1].bbox))
                     < 2 * get_h(lines[i - 1].bbox)
              THEN RowIndex(i) = RowIndex(i - 1)
              ELSE RowIndex(i) = RowIndex(i - 1) + 1
        /\ RowIndex(Len(lines)) = Len(rows)
        /\ (/\ Len(lines) = 2
            /\ lines[1] = Fragment(<<"a">>, BoxA)
            /\ lines[2] = Fragment(<<"b">>, BoxB))
           => (rows = << <<1, 2>> >> /\ out.val = <<"a", Space, "b">>)

C2_Witness ==
    /\ Returned
    /\ Len(lines) = 3
    /\ lines[1] = Fragment(<<"a">>, BoxA)
    /\ lines[2] = Fragment(<<"b">>, BoxB)
    /\ lines[3].bbox = PolySkew
    /\ rows = << <<1, 2>>, <<3>> >>

\* the line the claim expects for a row: texts in row order, separated by
\* floor(max(0, left - previous right) / 10) spaces
RECURSIVE ExpectedLine(_, _)
ExpectedLine(row, k) ==
    IF k > Len(row) THEN <<>>
    ELSE (IF k = 1 THEN <<>>
          ELSE Spaces(Max2(0, get_x(lines[row[k]].bbox)
                                  - x_end(lines[row[k - 1]].bbox)) \div 10))
         \o lines[row[k]].text \o ExpectedLine(row, k + 1)

\* C3: between two consecutive fragments of a row there are
\* floor(max(0, leftX(current) - rightX(previous)) / 10) spaces, and none
\* before the first fragment of the row.
C3_Spacing ==
    Returned =>
        out.val = Join([r \in 1..Len(rows) |-> ExpectedLine(rows[r], 1)])

\* C4: on a list of fragments with axis-aligned or 4-point polygon boxes
\* (zero-area boxes included) the call ends by returning a string, never by
\* raising; on the empty list it returns the empty string.
C4_Total ==
    (lpc = "done" /\ WellFormed(lines)) =>
        /\ ~out.exc
        /\ out.val \in Seq(Chars)
        /\ lines = <<>> => out.val = <<>>

C4_Witness ==
    /\ Returned
    /\ \E i, j \in 1..Len(lines) :
          lines[i].bbox = PolySkew /\ lines[j].bbox = BoxFlat
    /\ Len(out.val) >= 3

\* the four corners of the axis-aligned box [x, y, w, h]
Corners(bbox) ==
    LET x == bbox.xywh[1]
        y == bbox.xywh[2]
        w == bbox.xywh[3]
        h == bbox.xywh[4]
    IN  <<<<x, y>>, <<x + w, y>>, <<x + w, y + h>>, <<x, y + h>>>>

PointOrders == Perms(<<1, 2, 3, 4>>)

\* the polygon of the corners of bbox, listed in the order o
AsPolygon(bbox, o) ==
    [shape |-> "points", pts |-> [i \in 1..4 |-> Corners(bbox)[o[i]]]]

AllXYWH(ls) == \A i \in 1..Len(ls) : ls[i].bbox.shape = "xywh"

SameGeometry(a, b) ==
    /\ get_cy(a) = get_cy(b)
    /\ get_cx(a) = get_cx(b)
    /\ get_x(a) = get_x(b)
    /\ x_end(a) = x_end(b)
    /\ get_h(a) = get_h(b)

\* the point orders the lists of polygons are written in: clockwise from the
\* top left, counter-clockwise from the bottom left, and two orders that
\* cross the box
ListOrders == {<<1, 2, 3, 4>>, <<4, 3, 2, 1>>, <<3, 1, 4, 2>>, <<2, 4, 1, 3>>}

\* C13: for an axis-aligned box [x, y, w, h] and the polygon of its four
\* corners, in any of the 24 point orders, centre Y, centre X, left X, right
\* X and height are the same, and reconstruct_layout returns the same string
\* for a list of fragments in either representation (the polygons written
\* clockwise, counter-clockwise or crossing).
C13_Representation ==
    (Returned /\ AllXYWH(lines)) =>
        /\ \A o \in PointOrders :
              \A i \in 1..Len(lines) :
                 SameGeometry(lines[i].bbox, AsPolygon(lines[i].bbox, o))
        /\ \A o \in ListOrders :
              reconstruct_layout(
                 [i \in 1..Len(lines) |->
                     [lines[i] EXCEPT !.bbox = AsPolygon(@, o)]]) = out

C13_Witness ==
    /\ Returned
    /\ AllXYWH(lines)
    /\ Len(lines) = 3
    /\ Len(rows) = 2
    /\ \E i \in 1..3 : lines[i].bbox = BoxGap25
    /\ \E i \in 1..3 : lines[i].bbox = BoxFlat
    /\ \E i \in 1..Len(out.val) : out.val[i] = Space

\* the fragment before item i of the sorted list has height 0
AfterFlat(i) == get_h(lines[i - 1].bbox) = 0

StripSpaces(str) == SelectSeq(str, LAMBDA c : c # Space)

\* str.split("\n")
RECURSIVE SplitLines(_)
SplitLines(str) ==
    IF \A i \in 1..Len(str) : str[i] # Newline
    THEN <<str>>
    ELSE LET k == MinOf({i \in 1..Len(str) : str[i] = Newline})
         IN  <<SubSeq(str, 1, k - 1)>>
                 \o SplitLines(SubSeq(str, k + 1, Len(str)))

\* the call took the list `before` to the list ls, the rows rs and the
\* string str
Conserved(before, ls, rs, str) ==
    LET ols == SplitLines(str)
        item(r, k) == ls[rs[r][k]]
    IN  /\ Len(ols) = Len(rs)
        /\ \A r \in 1..Len(rs) :
              /\ rs[r] # <<>>
              /\ StripSpaces(ols[r]) =
                     Concat([k \in 1..Len(rs[r]) |-> item(r, k).text])
              /\ ols[r][1] # Space
              /\ ols[r][Len(ols[r])] # Space
              /\ \A k \in 1..(Len(rs[r]) - 1) :
                    get_x(item(r, k).bbox) <= get_x(item(r, k + 1).bbox)
        /\ \A r1, r2 \in 1..Len(rs) :
              r1 < r2 =>
                 \A k1 \in 1..Len(rs[r1]), k2 \in 1..Len(rs[r2]) :
                    get_cy(item(r1, k1).bbox) <= get_cy(item(r2, k2).bbox)
        /\ \A i \in 1..Len(ls) :
              Cardinality({rk \in (1..Len(rs)) \X (1..Len(ls)) :
                             /\ rk[2] <= Len(rs[rk[1]])
                             /\ rs[rk[1]][rk[2]] = i}) = 1
        /\ ls \in Perms(before)

\* C19: for a non-empty fragment list the output has one line per row, rows
\* in non-decreasing centre-Y order, each line the texts of its row in
\* ascending left-X order with only spaces between them, every fragment's
\* text exactly once, and the fragments (text, confidence, bbox) unchanged,
\* only reordered.
C19_TextConservation ==
    [][(lpc = "call" /\ lpc' = "done" /\ lines # <<>> /\ ~out'.exc) =>
          Conserved(lines, lines', rows', out'.val)]_vars

C19_Witness ==
    /\ Returned
    /\ Len(lines) = 3
    /\ Len(rows) = 2
    /\ \E r \in 1..2 : Len(rows[r]) = 2 /\ rows[r][1] > rows[r][2]
    /\ \E i \in 1..Len(out.val) : out.val[i] = Space

----------------------------------------------------------------------------
(* Properties of the engine adapters *)

\* the backend call, the image decoding, the extraction of a detection or
\* the layout reconstruction fails on this answer
BackendFails ==
    IF engine = "paddleocr"
    THEN \/ backend.exc
         \/ /\ ~Falsy(backend.val)
            /\ ~Falsy(backend.val.items[1])
            /\ \E i \in 1..Len(backend.val.items[1].items) :
                  LET line == backend.val.items[1].items[i]
                  IN  line.text_info = None \/ line.bbox = NoBox
    ELSE IF engine = "tesseract"
    THEN \/ backend.stage # "none"
         \/ \E i \in 1..Len(backend.tokens) : backend.tokens[i].conf = BadConf
    ELSE \/ backend.exc
         \/ \E i \in 1..Len(backend.val.items) :
               backend.val.items[i].bbox \in {NoBox, EmptyBox}

\* C5: recognize of each adapter never lets an exception escape; when the
\* backend call, the decoding, the extraction or the layout reconstruction
\* fails it returns success=false with an error message and its own engine
\* name.
C5_NoEscape ==
    apc = "done" =>
        /\ ~res.exc
        /\ res.val.engine = engine
        /\ BackendFails =>
              /\ res.val.success = FALSE
              /\ DOMAIN res.val = {"success", "error", "engine"}

C5_Witness ==
    /\ apc = "done"
    /\ engine = "paddleocr"
    /\ ~backend.exc
    /\ ~Falsy(backend.val)
    /\ ~Falsy(backend.val.items[1])
    /\ \A i \in 1..Len(backend.val.items[1].items) :
          backend.val.items[1].items[i].text_info # None
    /\ res = Return(FailureResult("paddleocr", "TypeError"))

AllIntConf ==
    \A i \in 1..Len(backend.tokens) : backend.tokens[i].conf.py = "int"

PositiveConf(t) == t.conf.n > 0

\* C9: the Tesseract adapter makes a fragment of a token exactly when its
\* integer confidence is > 0, keeps the order of the surviving tokens, and
\* gives each fragment the confidence raw/100, which lies in (0, 1].
C9_TesseractConfidence ==
    (apc = "done" /\ engine = "tesseract" /\ backend.stage = "none"
        /\ AllIntConf) =>
        LET kept == SelectSeq(backend.tokens, PositiveConf)
            ls == res.val.lines
        IN  /\ res.val.success
            /\ Len(ls) = Len(kept)
            /\ \A i \in 1..Len(kept) :
                  /\ ls[i].text = kept[i].text
                  /\ ls[i].bbox = XYWH(kept[i].left, kept[i].top,
                                       kept[i].width, kept[i].height)
                  /\ ls[i].confidence[1] = kept[i].conf.n
                  /\ ls[i].confidence[2] = 100
                  /\ 0 < ls[i].confidence[1]
                  /\ ls[i].confidence[1] <= ls[i].confidence[2]

C9_Witness ==
    /\ apc = "done"
    /\ engine = "tesseract"
    /\ backend.stage = "none"
    /\ Len(backend.tokens) = 2
    /\ backend.tokens[1].conf = IntConf(0)
    /\ backend.tokens[2].conf = IntConf(45)
    /\ res.val.success
    /\ Len(res.val.lines) = 1
    /\ res.val.lines[1].confidence = Rat(45, 100)

\* the backend found no text in the image
NoTextDetected ==
    IF engine = "paddleocr"
    THEN ~backend.exc /\ (Falsy(backend.val) \/ Falsy(backend.val.items[1]))
    ELSE IF engine = "tesseract"
    THEN /\ backend.stage = "none"
         /\ \A i \in 1..Len(backend.tokens) :
               backend.tokens[i].conf = IntConf(0 - 1)
         /\ \A k \in 1..Len(backend.string) : IsWhite(backend.string[k])
    ELSE ~backend.exc /\ backend.val.items = <<>>

\* C10: when the backend detects no text, recognize of each adapter returns
\* success=true with the empty text and no fragment.
C10_EmptyIsSuccess ==
    (apc = "done" /\ NoTextDetected) =>
        /\ ~res.exc
        /\ res.val.success
        /\ res.val.text = <<>>
        /\ res.val.lines = <<>>

C10_Witness ==
    /\ apc = "done"
    /\ engine = "tesseract"
    /\ NoTextDetected
    /\ backend.tokens # <<>>
    /\ backend.string # <<>>
    /\ res = Return(EmptyResult("tesseract"))

----------------------------------------------------------------------------
(* Properties of the web workflow *)

\* request r takes a step of perform_ocr from the place p
StepFrom(r, p) == req[r].pc = p /\ req'[r] # req[r]

\* C6: process_image on a path that does not exist returns success=false
\* with the error "Image file not found: <path>" and does not call
\* recognize; on a path that exists it returns what recognize returns.
C6_ProcessImage ==
    [][\A r \in Reqs :
        /\ StepFrom(r, "check") =>
              IF files[req[r].ocr_input] = None
              THEN /\ req'[r].result =
                         [success |-> FALSE,
                          error |-> <<"Image file not found: ",
                                      req[r].ocr_input>>]
                   /\ req'[r].recognized = None
                   /\ req'[r].pc = "cleanup"
              ELSE /\ req'[r].pc = "recognize"
                   /\ req'[r].result = None
        /\ StepFrom(r, "recognize") =>
              /\ req'[r].recognized # None
              /\ req'[r].result = req'[r].recognized
              /\ req'[r].pc = "cleanup"]_vars

C6_Witness ==
    \E r \in Reqs :
        /\ req[r].pc = "cleanup"
        /\ req[r].recognized = None
        /\ req[r].result.error =
              <<"Image file not found: ", TempPath(req[r].filename)>>

\* the request names languages other than those of the default
\* configuration
DiffersFromDefault(kind, requested_langs) ==
    requested_langs # <<>> /\ ToSet(requested_langs) # ToSet(DefaultLang(kind))

\* the adapter made for request r with the languages l
OverrideAdapter(r, l) ==
    [engine_type |-> DefaultEngineType(OCR_ENGINE), lang |-> l,
     role |-> "override", by |-> r]

\* C7 (as stated): for any configured engine kind, a request whose language
\* override differs from the default gets a new adapter configured with the
\* override, and the shared default adapter is left unchanged.
C7_OverrideAnyEngine ==
    [][\A r \in Reqs :
        (StepFrom(r, "override") /\ req'[r].pc = "save"
            /\ DiffersFromDefault(OCR_ENGINE, req'[r].language)) =>
            /\ req'[r].service = OverrideAdapter(r, req'[r].language)
            /\ ocr_service' = ocr_service]_vars

\* the adapter in hand is the default one, with the default language
IsDefaultAdapter(inst) ==
    /\ inst.role = "default"
    /\ inst.engine_type = DefaultEngineType(OCR_ENGINE)
    /\ inst.lang = DefaultLang(OCR_ENGINE)

\* C7 (amended): with engine kind easyocr, a request whose language override
\* differs from EASYOCR_LANG gets a new adapter configured with the override,
\* used by that request only; the shared default adapter and the
\* configuration are left unchanged, and every request without such an
\* override is served by a default adapter with the default language.  With
\* the other engine kinds the override is ignored.
C7_OverrideEasyOCR ==
    [][\A r \in Reqs :
        /\ (StepFrom(r, "override") /\ req'[r].pc = "save") =>
              /\ IF OCR_ENGINE = "easyocr"
                    /\ DiffersFromDefault(OCR_ENGINE, req'[r].language)
                 THEN req'[r].service = OverrideAdapter(r, req'[r].language)
                 ELSE /\ req'[r].service = req[r].service
                      /\ IsDefaultAdapter(req'[r].service)
              /\ ocr_service' = ocr_service
        /\ OCR_ENGINE' = OCR_ENGINE
        /\ ocr_service' # None => IsDefaultAdapter(ocr_service')
        /\ (req'[r].service # None /\ req'[r].service.role = "override") =>
              req'[r].service.by = r
        /\ (req[r].pc \in {"save", "prep", "check"}
              /\ req'[r].pc \in {"prep", "check", "recognize"}) =>
              req'[r].service = req[r].service]_vars

C7_Witness ==
    /\ OCR_ENGINE = "easyocr"
    /\ \E r1, r2 \in Reqs :
          /\ req[r1].pc = "recognize"
          /\ req[r1].service = OverrideAdapter(r1, <<"en">>)
          /\ req[r2].pc = "recognize"
          /\ req[r2].service = ocr_service
          /\ IsDefaultAdapter(ocr_service)

\* C8: under any interleaving the default adapter is constructed at most
\* once, and all requests that use the default configuration are served by
\* that one instance.
C8_SingleDefault ==
    /\ constructed <= 1
    /\ \A r1, r2 \in Reqs :
          (/\ req[r1].service # None
           /\ req[r2].service # None
           /\ req[r1].service.role = "default"
           /\ req[r2].service.role = "default") =>
              req[r1].service = req[r2].service

C14_UnknownKindFails ==
    OCR_ENGINE \notin EngineKinds =>
        /\ ocr_service = None
        /\ constructed = 0
        /\ \A r \in Reqs :
              /\ req[r].service = None
              /\ req[r].pc \in {"get", "construct", "done"}
              /\ req[r].pc = "done" => req[r].response.status = 500

\* C17: requests do not touch each other's temporary files: from the moment
\* a request has saved its upload until it removes it, the file under its
\* temp_path is its own upload, the input of OCR holds its own content, and
\* what the engine recognized was read from its own upload.
C17_RequestIsolation ==
    \A r \in Reqs :
        /\ req[r].pc \in {"prep", "check", "recognize"} =>
              files[TempPath(req[r].filename)] = Upload(r)
        /\ req[r].pc \in {"check", "recognize"} =>
              /\ files[req[r].ocr_input] # None
              /\ files[req[r].ocr_input].upload = r
        /\ (req[r].recognized # None /\ req[r].recognized.success) =>
              req[r].recognized.text.image.upload = r

\* C18: once the construction of the default adapter has failed, the error
\* stays recorded, the handle is never set afterwards, every request that
\* then enters get_ocr_service ends with the error (status 500) without
\* attempting construction; the handle and the error are never both set.
C18_FailureServiceWide ==
    [][/\ ocr_service' = None \/ ocr_init_error' = None
       /\ ocr_init_error # None =>
             /\ ocr_init_error' = ocr_init_error
             /\ ocr_service' = None
             /\ \A r \in Reqs :
                   StepFrom(r, "get") =>
                      /\ req'[r].pc = "done"
                      /\ req'[r].response.status = 500]_vars

----------------------------------------------------------------------------
(* Properties of ImageProcessor *)

\* the value of lo..hi nearest to v
Nearest(v, lo, hi) == IF v < lo THEN lo ELSE IF v > hi THEN hi ELSE v

Inside(region, image) ==
    /\ image.x0 <= region.x0
    /\ image.y0 <= region.y0
    /\ region.x0 + region.width <= image.x0 + image.width
    /\ region.y0 + region.height <= image.y0 + image.height

DocumentedCrop ==
    /\ ip.image = Raster(0, 0, 100, 100)
    /\ ip.x = 0 - 5 /\ ip.y = 0 - 5
    /\ ip.w = 10000 /\ ip.h = 10000

\* C12: for a picture of W by H and any integers x, y, w, h, crop returns a
\* region inside the picture, with the origin clamped into [0,W]x[0,H] and
\* the extents clamped to what remains; when the clamped area is zero it
\* returns the picture itself, and (-5, -5, 10000, 10000) on 100x100
\* returns the whole picture.
C12_CropClamped ==
    (ip.op = "crop" /\ ip.pc = "done") =>
        LET W == ip.image.width
            H == ip.image.height
            cx == Nearest(ip.x, 0, W)
            cy == Nearest(ip.y, 0, H)
            cw == Nearest(ip.w, 0, W - cx)
            ch == Nearest(ip.h, 0, H - cy)
        IN  /\ ~ip.out.exc
            /\ Inside(ip.out.val, ip.image)
            /\ IF cw = 0 \/ ch = 0
               THEN ip.out.val = ip.image
               ELSE ip.out.val = Raster(cx, cy, cw, ch)
            /\ DocumentedCrop => ip.out.val = Raster(0, 0, 100, 100)

C12_Witness ==
    /\ ip.op = "crop" /\ ip.pc = "done"
    /\ DocumentedCrop
    /\ ip.out = Return(Raster(0, 0, 100, 100))

\* the places of the calls of fn in the calls of preprocess
CallsOf(fn) == {i \in 1..Len(ip.calls) : ip.calls[i].fn = fn}

Rotated(image) ==
    \E i \in 1..Len(image.ops) : image.ops[i] \in {"minAreaRect", "warpAffine"}

\* C15: deskew of a picture with no foreground pixel returns the picture
\* itself, without angle estimation or rotation; preprocess calls deskew
\* only when deskew_image is set and the image has one channel, after
\* denoise and before the threshold.
C15_Deskew ==
    /\ (ip.op = "deskew" /\ ip.pc = "done" /\ ~ip.image.foreground) =>
          ip.out = Return(ip.image)
    /\ ip.op = "preprocess" =>
          /\ \A i \in CallsOf("deskew") :
                /\ ip.deskew_image
                /\ ~ip.calls[i].colour
                /\ \A j \in CallsOf("denoise") : j < i
                /\ \A j \in CallsOf("apply_threshold") : i < j
          /\ (ip.pc = "done" /\ ~ip.out.exc /\ ~ip.file.foreground) =>
                ~Rotated(ip.out.val)

C15_Witness ==
    /\ ip.op = "preprocess" /\ ip.pc = "done"
    /\ ip.file = Array(TRUE, FALSE)
    /\ ip.deskew_image
    /\ CallsOf("deskew") = {3}
    /\ CallsOf("denoise") = {2}
    /\ CallsOf("apply_threshold") = {4}
    /\ ip.out = Return([colour |-> FALSE, foreground |-> FALSE,
                        ops |-> <<"cvtColor", "fastNlMeansDenoising",
                                  "threshold">>])

====
